---- MODULE Spec2Model ----
(***************************************************************************)
(* funcToForm: a form is generated from a ParamGroup, a submission reads   *)
(* and converts every field, runs the user's function and renders its      *)
(* output in the lanes of an Ostream.                                      *)
(*                                                                         *)
(* JavaScript values are records with one field naming their type:         *)
(* [null |-> TRUE], [undef |-> TRUE], [bool |-> b], [num |-> n] and        *)
(* [str |-> s], where a string s is the sequence of its pieces: the        *)
(* characters of typed text, the literals and names of the source each     *)
(* kept as one piece, so that '+' is \o.                                   *)
(* A call that may throw yields a record with an err field, which is       *)
(* NoErr when the call returned.                                           *)
(***************************************************************************)
EXTENDS Integers, Sequences, FiniteSets, TLC

\* ------------------------------------------------------------------ bounds
\* most lane containers of a stream that is called directly
MaxLanes == 3
\* most lane containers of the stream of a form
MaxFormLanes == 4
\* most children of one lane container
MaxKids == 2
\* most stream calls the user's function makes in one submission
MaxFuncOps == 1
\* most params of a group and most options of a select widget that a script defines
MaxDefs == 3
\* most characters of a text given to a converter
MaxText == 3
\* largest magnitude of a number given to a validator
MaxNum == 3

\* ------------------------------------------------------- JavaScript values
Null == [null |-> TRUE]
Undefined == [undef |-> TRUE]
Str(s) == [str |-> s]
Num(n) == [num |-> n]
Bool(b) == [bool |-> b]

IsStr(v) == DOMAIN v = {"str"}
IsNum(v) == DOMAIN v = {"num"}

\* truthiness, as used by if(v) and (v ? a : b)
Truthy(v) ==
    IF IsStr(v) THEN Len(v.str) > 0
    ELSE IF IsNum(v) THEN v.num # 0
    ELSE IF DOMAIN v = {"bool"} THEN v.bool
    ELSE FALSE

NoErr == [none |-> TRUE]
InputError(message) == [name |-> "InputError", message |-> message]
Error(message) == [name |-> "Error", message |-> message]
TypeError(message) == [name |-> "TypeError", message |-> message]
IsInputError(e) == e # NoErr /\ e.name = "InputError"

Digits == <<"0", "1", "2", "3", "4", "5", "6", "7", "8", "9">>
IsDigit(c) == \E i \in 1..10 : Digits[i] = c
DigitVal(c) == (CHOOSE i \in 1..10 : Digits[i] = c) - 1

RECURSIVE NatToStr(_)
NatToStr(n) == IF n < 10 THEN <<Digits[n + 1]>>
               ELSE NatToStr(n \div 10) \o <<Digits[(n % 10) + 1]>>

\* '' + v
ToStr(v) ==
    IF IsStr(v) THEN v.str
    ELSE IF IsNum(v) THEN (IF v.num < 0 THEN <<"-">> \o NatToStr(-v.num) ELSE NatToStr(v.num))
    ELSE IF DOMAIN v = {"bool"} THEN (IF v.bool THEN <<"true">> ELSE <<"false">>)
    ELSE IF v = Null THEN <<"null">>
    ELSE <<"undefined">>

\* ------------------------------------------------ converters and validators
RECURSIVE TrimLeft(_)
TrimLeft(s) == IF Len(s) > 0 /\ s[1] = " " THEN TrimLeft(Tail(s)) ELSE s

RECURSIVE TrimRight(_)
TrimRight(s) == IF Len(s) > 0 /\ s[Len(s)] = " " THEN TrimRight(SubSeq(s, 1, Len(s) - 1)) ELSE s

Trim(s) == TrimRight(TrimLeft(s))

RECURSIVE ParseNat(_)
ParseNat(s) == IF Len(s) = 0 THEN 0
               ELSE 10 * ParseNat(SubSeq(s, 1, Len(s) - 1)) + DigitVal(s[Len(s)])

\* /^-?\d+$/.test(s)
IsIntText(s) ==
    LET body == IF Len(s) > 0 /\ s[1] = "-" THEN Tail(s) ELSE s
    IN  Len(body) > 0 /\ \A i \in 1..Len(body) : IsDigit(body[i])

parseInt(s) == IF s[1] = "-" THEN -ParseNat(Tail(s)) ELSE ParseNat(s)

\* toInt after s = s.trim()
toIntTrimmed(s) ==
    IF IsIntText(s) THEN [val |-> Num(parseInt(s)), err |-> NoErr]
    ELSE [val |-> Undefined, err |-> InputError(s \o <<" is not an integer">>)]

toInt(v) == toIntTrimmed(Trim(v.str))

\* Numbers that are not integers: NaN, the infinities, and a finite number
\* that is not an integer as the fraction n / d in lowest terms, d > 1.
\* The model does not tell -0 from 0.
NaN == [nan |-> TRUE]
Infinity(sign) == [inf |-> sign]

\* typeof v === 'number' and v is not NaN
IsNumber(v) == DOMAIN v \in {{"num"}, {"ratio"}, {"inf"}}

Abs(n) == IF n < 0 THEN -n ELSE n

RECURSIVE GCD(_, _)
GCD(a, b) == IF b = 0 THEN a ELSE GCD(b, a % b)

\* n / d for d > 0
Ratio(n, d) ==
    LET g == GCD(Abs(n), d)
    IN  IF d \div g = 1 THEN Num(IF n < 0 THEN -(Abs(n) \div g) ELSE n \div g)
        ELSE [ratio |-> <<IF n < 0 THEN -(Abs(n) \div g) ELSE n \div g, d \div g>>]

RECURSIVE Pow10(_)
Pow10(e) == IF e = 0 THEN 1 ELSE 10 * Pow10(e - 1)

Unsigned(t) == IF Len(t) > 0 /\ t[1] \in {"-", "+"} THEN Tail(t) ELSE t

\* StrDecimalLiteral without exponent: an optional sign, then digits with
\* at most one '.', at least one digit
IsSignedDecimal(t) ==
    LET body == Unsigned(t)
    IN  /\ \A i \in 1..Len(body) : IsDigit(body[i]) \/ body[i] = "."
        /\ Cardinality({i \in 1..Len(body) : body[i] = "."}) <= 1
        /\ \E i \in 1..Len(body) : IsDigit(body[i])

\* the value of a text for which IsSignedDecimal holds
DecimalValue(t) ==
    LET body == Unsigned(t)
        dots == {i \in 1..Len(body) : body[i] = "."}
        dot == IF dots = {} THEN Len(body) + 1 ELSE CHOOSE i \in dots : TRUE
        int == SubSeq(body, 1, dot - 1)
        frac == SubSeq(body, dot + 1, Len(body))
        m == ParseNat(int \o frac)
    IN  Ratio(IF t[1] = "-" THEN -m ELSE m, Pow10(Len(frac)))

\* a hexadecimal literal, 0x and digits; of the hexadecimal digits the
\* typed texts hold only the decimal ones
IsHexText(t) ==
    /\ Len(t) >= 3
    /\ t[1] = "0"
    /\ t[2] = "x"
    /\ \A i \in 3..Len(t) : IsDigit(t[i])

\* isNaN(s) is whether Number(s) is NaN: Number of an empty or blank text is
\* 0, of a decimal or hexadecimal literal its value
isNaN(s) ==
    LET t == Trim(s)
    IN  ~(t = <<>> \/ IsSignedDecimal(t) \/ IsHexText(t))

\* parseFloat(s): the value of the longest prefix, after leading blanks,
\* that is a decimal literal, NaN when there is none
parseFloat(s) ==
    LET t == TrimLeft(s)
        ks == {k \in 1..Len(t) : IsSignedDecimal(SubSeq(t, 1, k))}
    IN  IF ks = {} THEN NaN
        ELSE DecimalValue(SubSeq(t, 1, CHOOSE k \in ks : \A j \in ks : j <= k))

\* toFloatSingle after s = s.trim()
toFloatSingleTrimmed(s) ==
    IF isNaN(s) THEN [val |-> Undefined, err |-> InputError(s \o <<" is not a number">>)]
    ELSE [val |-> parseFloat(s), err |-> NoErr]

toFloatSingle(v) == toFloatSingleTrimmed(Trim(v.str))

\* s.split('/') for a non-empty separator: the texts between the separators
RECURSIVE Split(_, _)
Split(s, sep) ==
    IF \A i \in 1..Len(s) : s[i] # sep THEN <<s>>
    ELSE LET k == CHOOSE i \in 1..Len(s) : s[i] = sep /\ \A j \in 1..(i - 1) : s[j] # sep
         IN  <<SubSeq(s, 1, k - 1)>> \o Split(SubSeq(s, k + 1, Len(s)), sep)

\* n / d of two integers; dNeg is whether d, when it is zero, is -0
Divide(n, d, dNeg) ==
    IF d = 0
    THEN IF n = 0 THEN NaN
         ELSE Infinity(IF (n < 0) = dNeg THEN 1 ELSE -1)
    ELSE IF d < 0 THEN Ratio(-n, -d) ELSE Ratio(n, d)

\* the branch parts.length == 2 of toFloat, n and d the results of toInt
toFloatRatio(n, d, dText) ==
    IF n.err # NoErr THEN n
    ELSE IF d.err # NoErr THEN d
    ELSE [val |-> Divide(n.val.num, d.val.num, dText[1] = "-"), err |-> NoErr]

toFloatParts(v, parts) ==
    IF Len(parts) >= 3
    THEN [val |-> Undefined, err |-> InputError(v.str \o <<" has too many forward slashes">>)]
    ELSE IF Len(parts) = 2
         THEN toFloatRatio(toInt(Str(parts[1])), toInt(Str(parts[2])), Trim(parts[2]))
         ELSE toFloatSingle(v)

toFloat(v) == toFloatParts(v, Split(v.str, "/"))

\* the earlier assertGE, whose function has no return statement
assertGE_NoReturn(thresh, x) ==
    IF x.num < thresh
    THEN [val |-> Undefined,
          err |-> InputError(ToStr(x) \o <<" should be >= ">> \o ToStr(Num(thresh)))]
    ELSE [val |-> Undefined, err |-> NoErr]

assertGE(thresh, x) ==
    IF x.num < thresh
    THEN [val |-> Undefined,
          err |-> InputError(ToStr(x) \o <<" should be >= ">> \o ToStr(Num(thresh)))]
    ELSE [val |-> x, err |-> NoErr]

\* a converter is [conv |-> the sequence of the primitives it is composed of]
ToIntConv == [conv |-> <<[fn |-> "toInt", thresh |-> 0]>>]
ToFloatConv == [conv |-> <<[fn |-> "toFloat", thresh |-> 0]>>]
AssertGEConv(thresh) == [conv |-> <<[fn |-> "assertGE", thresh |-> thresh]>>]

\* compose(f, g) is x |-> f(g(x)): the last primitive runs first
compose(f, g) == [conv |-> f.conv \o g.conv]

ApplyPrim(p, x) ==
    IF p.fn = "toInt" THEN toInt(x)
    ELSE IF p.fn = "toFloat" THEN toFloat(x)
    ELSE assertGE(p.thresh, x)

\* f(g(x)): r is the result of g(x), an error of g leaves the composition
RECURSIVE ApplySeq(_, _)
ApplyOuter(prims, r) ==
    IF r.err # NoErr THEN r ELSE ApplySeq(prims, r.val)

ApplySeq(prims, x) ==
    IF Len(prims) = 0 THEN [val |-> x, err |-> NoErr]
    ELSE ApplyOuter(SubSeq(prims, 1, Len(prims) - 1), ApplyPrim(prims[Len(prims)], x))

\* converter(x)
ApplyConv(converter, x) == ApplySeq(converter.conv, x)

\* ------------------------------------------------------ widgets and params
\* new Map() and {}
EmptyMap == [x \in {} |-> Null]

TextWidget(converter, required, defVal, defStr) ==
    [cls |-> "TextWidget", converter |-> converter, defVal |-> defVal,
     defStr |-> defStr,
     required |-> IF Truthy(defVal) THEN FALSE ELSE required]

TextWidget_read(w, key, value) ==
    IF Truthy(value)
    THEN IF w.converter = Null THEN [val |-> value, err |-> NoErr]
         ELSE ApplyConv(w.converter, value)
    ELSE IF w.required
         THEN [val |-> Undefined, err |-> InputError(<<"emtpy value for ">> \o key)]
         ELSE [val |-> w.defVal, err |-> NoErr]

CheckBoxWidget(defVal) ==
    [cls |-> "CheckBoxWidget", defVal |-> defVal]

CheckBoxWidget_read(w, key, value) == [val |-> Bool(Truthy(value)), err |-> NoErr]

\* param.widget.read(key, value)
WidgetRead(w, key, value) ==
    IF w.cls = "TextWidget" THEN TextWidget_read(w, key, value)
    ELSE CheckBoxWidget_read(w, key, value)

\* the position of the first element of list whose name an earlier element
\* has, 0 when the names are distinct: where the loops over seenNames and
\* nameToValue throw
FirstRepeat(list) ==
    LET rep == {j \in 1..Len(list) : \E i \in 1..(j - 1) : list[i].name = list[j].name}
    IN  IF rep = {} THEN 0 ELSE CHOOSE j \in rep : \A k \in rep : j <= k

SelectOption(name, value, text) ==
    [name |-> name,
     value |-> IF value = Null THEN Str(<<name>>) ELSE value,
     text |-> IF text = Null THEN Str(<<name>>) ELSE text]

\* the earlier SelectWidget, whose constructor only keeps the options
SelectWidget_Unchecked(options, defName) ==
    [cls |-> "SelectWidget", options |-> options, defName |-> defName,
     nameToValue |-> EmptyMap, err |-> NoErr]

\* a constructor yields the object with err, the error it throws or NoErr
SelectWidget(options, defName) ==
    [cls |-> "SelectWidget", options |-> options, defName |-> defName,
     nameToValue |->
        LET n == IF FirstRepeat(options) = 0 THEN Len(options) ELSE FirstRepeat(options) - 1
        IN  [k \in {options[i].name : i \in 1..n} |->
                options[CHOOSE i \in 1..n : options[i].name = k].value],
     err |-> IF FirstRepeat(options) # 0
             THEN Error(<<"Select option ", options[FirstRepeat(options)].name, " already used">>)
             ELSE NoErr]

Param(name, widget) == [name |-> name, widget |-> widget]

ParamGroup(name, paramList) ==
    [name |-> name, paramList |-> paramList,
     err |-> IF FirstRepeat(paramList) # 0
             THEN Error(<<"Parameter name ", paramList[FirstRepeat(paramList)].name,
                          " already used">>)
             ELSE NoErr]

\* `f2f.${paramGroup.name}`
FormName(group) == <<"f2f.", group.name>>
\* path.join('.') + '.' + param.name
FieldKey(group, param) == FormName(group) \o <<".", param.name>>

\* ------------------------------------------------------------------ Ostream
\* null in a field that otherwise holds a lane name
NullName == "null"

\* 'log': 'div', 'break': 'div', 'svg': 'svg'
laneNameToType == [log |-> "div", break |-> "div", svg |-> "svg"]

\* An Ostream is [laneName, laneElem, children]: children are the children
\* of streamElem in document order, laneElem is the position in children of
\* the element the field refers to, 0 for null.
Ostream ==
    [laneName |-> NullName, laneElem |-> 0, children |-> <<>>]

\* document.createElement(laneType) with the class and the attributes
LaneElement(laneType, name, attrs) ==
    [tag |-> laneType, cls |-> <<"f2f-lane-", name>>, attrs |-> attrs, kids |-> <<>>]

\* laneElem.appendChild(elem)
AppendKid(s, elem) ==
    [s EXCEPT !.children[s.laneElem].kids = Append(@, elem)]

\* laneNameToType is an object literal: laneNameToType[name] is also found
\* for the names it inherits from Object.prototype, as a function or, for
\* __proto__, an object
InheritedNames ==
    {"constructor", "toString", "toLocaleString", "valueOf", "hasOwnProperty",
     "isPrototypeOf", "propertyIsEnumerable", "__proto__"}

\* what document.createElement throws for a function or an object: their
\* string is not the name of an element
InvalidCharacterError ==
    [name |-> "InvalidCharacterError", message |-> <<"invalid element name">>]

\* the lane type is looked up, and when it is truthy laneName is assigned
\* before the element is created
setLane(s, name, attrs) ==
    IF name = s.laneName THEN [s |-> s, err |-> NoErr]
    ELSE IF name \in DOMAIN laneNameToType
         THEN [s |-> [laneName |-> name,
                      laneElem |-> Len(s.children) + 1,
                      children |-> Append(s.children,
                                          LaneElement(laneNameToType[name], name, attrs))],
               err |-> NoErr]
         ELSE IF name \in InheritedNames
              THEN [s |-> [s EXCEPT !.laneName = name], err |-> InvalidCharacterError]
              ELSE [s |-> s, err |-> Error(<<"invalid lane name ", name>>)]

\* log(...arguments): one line, the arguments as strings joined by ' '
RECURSIVE JoinArgs(_)
JoinArgs(args) ==
    IF Len(args) = 0 THEN <<>>
    ELSE IF Len(args) = 1 THEN ToStr(args[1])
    ELSE ToStr(args[1]) \o <<" ">> \o JoinArgs(Tail(args))

\* log after this.setLane('log'), whose result is r
logLine(r, args) ==
    IF r.err # NoErr THEN r
    ELSE IF r.s.laneElem = 0
         THEN [s |-> r.s, err |-> TypeError(<<"laneElem is null">>)]
         ELSE [s |-> AppendKid(r.s, [cls |-> "f2f-log-line", html |-> JoinArgs(args)]),
               err |-> NoErr]

log(s, args) == logLine(setLane(s, "log", Null), args)

addBreak(s) == setLane(s, "break", Null)

rawAdd(s, elem) ==
    IF s.laneElem = 0 THEN [s |-> s, err |-> TypeError(<<"laneElem is null">>)]
    ELSE [s |-> AppendKid(s, elem), err |-> NoErr]

\* clear() that forgets to reset laneName
clear_KeepsLaneName(s) ==
    [s |-> [laneName |-> s.laneName, laneElem |-> 0, children |-> <<>>], err |-> NoErr]

clear(s) ==
    [s |-> [laneName |-> NullName, laneElem |-> 0, children |-> <<>>], err |-> NoErr]

\* a call on a stream, as data: the calls the user's function or a script
\* holding debugInfo.stdout can make
LogOp(args) == [op |-> "log", name |-> NullName, arg |-> args]
SetLaneOp(name, attrs) == [op |-> "setLane", name |-> name, arg |-> attrs]
AddBreakOp == [op |-> "addBreak", name |-> NullName, arg |-> Null]
RawAddOp(elem) == [op |-> "rawAdd", name |-> NullName, arg |-> elem]
ClearOp == [op |-> "clear", name |-> NullName, arg |-> Null]

ApplyOp(s, o) ==
    IF o.op = "log" THEN log(s, o.arg)
    ELSE IF o.op = "setLane" THEN setLane(s, o.name, o.arg)
    ELSE IF o.op = "addBreak" THEN addBreak(s)
    ELSE IF o.op = "rawAdd" THEN rawAdd(s, o.arg)
    ELSE clear(s)

\* The stream together with a reference stream: ref is constructed anew at
\* every clear() and receives every later call; cleared is "never" before
\* the first clear(), then "content" or "empty" as the last clear() found
\* lane containers or none; kept counts the containers of the stream that
\* were there when the run started.
World(s, ref, cleared) ==
    [s |-> s, ref |-> ref, cleared |-> cleared, kept |-> Len(s.children), err |-> NoErr]

\* r is the result of the call on the stream
WorldAfter(w, o, r) ==
    [s |-> r.s,
     ref |-> IF o.op = "clear" THEN Ostream
             ELSE IF w.cleared # "never" THEN ApplyOp(w.ref, o).s ELSE w.ref,
     cleared |-> IF o.op # "clear" THEN w.cleared
                 ELSE IF Len(w.s.children) > 0 THEN "content" ELSE "empty",
     kept |-> IF o.op = "clear" THEN 0 ELSE w.kept,
     err |-> r.err]

WorldOp(w, o) == WorldAfter(w, o, ApplyOp(w.s, o))

\* the calls of ops in order, up to the first that throws
RECURSIVE RunOps(_, _)
RunRest(w1, ops) ==
    IF w1.err # NoErr THEN w1 ELSE RunOps(w1, ops)

RunOps(w, ops) ==
    IF Len(ops) = 0 THEN w ELSE RunRest(WorldOp(w, ops[1]), Tail(ops))

\* ------------------------------------------------------------- form engine
EmptyObj == [x \in {} |-> Null]

\* new FormData(formElem): a text input is always submitted, a checkbox
\* only when it is checked, as "on"
FormData(group, ctl) ==
    LET sent == {i \in 1..Len(group.paramList) :
                    LET p == group.paramList[i]
                    IN  p.widget.cls = "TextWidget" \/ ctl[p.name].bool}
    IN  [k \in {FieldKey(group, group.paramList[i]) : i \in sent} |->
            LET p == group.paramList[CHOOSE i \in sent : FieldKey(group, group.paramList[i]) = k]
            IN  IF p.widget.cls = "TextWidget" THEN ctl[p.name] ELSE Str(<<"on">>)]

\* formData.get(key)
FormDataGet(formData, key) == IF key \in DOMAIN formData THEN formData[key] ELSE Null

\* error.toString()
ErrorToString(e) == <<e.name, ": ">> \o e.message

\* readFormItem: acc carries output, the errors elements (errs) and, for
\* the record, the keys whose widget.read was called (reads) and those
\* whose error was displayed (failed); ret is the returned flag
\* the try / catch of readFormItem: r is the result of widget.read
readFormItemTry(acc, param, key, r) ==
    IF r.err = NoErr
    THEN [acc EXCEPT !.output = (param.name :> r.val) @@ @, !.ret = TRUE]
    ELSE IF IsInputError(r.err) /\ param.name \in DOMAIN acc.errs
         THEN [acc EXCEPT
                 !.errs[param.name] =
                     Append(@, [cls |-> "f2f-error", html |-> r.err.message]),
                 !.failed = @ \cup {key},
                 !.ret = FALSE]
         ELSE [acc EXCEPT !.err = r.err]

\* readFormItem that leaves the errors element as it finds it
readFormItemAt_KeepsErrors(formData, acc, param, key) ==
    readFormItemTry(
        [acc EXCEPT !.reads = Append(@, key)],
        param, key,
        WidgetRead(param.widget, key, FormDataGet(formData, key)))

\* readFormItem once key is known: the errors element is emptied, then read
readFormItemAt(formData, acc, param, key) ==
    readFormItemTry(
        [acc EXCEPT !.errs = IF param.name \in DOMAIN acc.errs
                             THEN [acc.errs EXCEPT ![param.name] = <<>>] ELSE acc.errs,
                    !.reads = Append(@, key)],
        param, key,
        WidgetRead(param.widget, key, FormDataGet(formData, key)))

readFormItem(formData, acc, param, group) ==
    IF "paramList" \in DOMAIN param
    THEN [acc EXCEPT !.err = Error(<<"readFormItem: ParamGroup not implemented.">>)]
    ELSE readFormItemAt(formData, acc, param, FieldKey(group, param))

\* readForm that stops at the first field whose read failed
RECURSIVE readFormFrom_ShortCircuit(_, _, _, _)
readFormNext_ShortCircuit(group, formData, i, a) ==
    IF a.err # NoErr THEN a
    ELSE IF ~a.ret THEN [a EXCEPT !.globalOk = FALSE]
    ELSE readFormFrom_ShortCircuit(group, formData, i + 1, a)

readFormFrom_ShortCircuit(group, formData, i, acc) ==
    IF i > Len(group.paramList) THEN acc
    ELSE readFormNext_ShortCircuit(group, formData, i,
                                   readFormItem(formData, acc, group.paramList[i], group))

\* the loop of readForm from the i-th param on
RECURSIVE readFormFrom(_, _, _, _)
\* the rest of an iteration, a the state after its readFormItem
readFormNext(group, formData, i, a) ==
    IF a.err # NoErr THEN a
    ELSE readFormFrom(group, formData, i + 1,
                      [a EXCEPT !.globalOk = IF a.ret THEN @ ELSE FALSE])

readFormFrom(group, formData, i, acc) ==
    IF i > Len(group.paramList) THEN acc
    ELSE readFormNext(group, formData, i,
                      readFormItem(formData, acc, group.paramList[i], group))

readForm(group, formData, errs) ==
    readFormFrom(group, formData, 1,
                 [output |-> EmptyObj, globalOk |-> TRUE, errs |-> errs, ret |-> TRUE,
                  reads |-> <<>>, failed |-> {}, err |-> NoErr])

\* The user's function, func(input, stdout): prog is what this call does,
\* the stream calls it makes (ops), then whether it throws or what it returns.
\* funcEnd is its end, w1 the stream after its calls.
funcEnd(prog, w1) ==
    IF w1.err # NoErr THEN [w |-> w1, err |-> w1.err, output |-> Undefined]
    ELSE IF prog.throws
         THEN [w |-> w1, err |-> Error(<<"boom">>), output |-> Undefined]
         ELSE [w |-> w1, err |-> NoErr, output |-> prog.ret]

func(prog, input, w) == funcEnd(prog, RunOps(w, prog.ops))

\* a call on stdout inside the try block: what it throws is caught
Tried(w) == [w |-> w, err |-> w.err]

\* the try block after func, whose result is fr: stdout.log of the output
TryBlockAfter(fr) ==
    IF fr.err # NoErr THEN [w |-> fr.w, err |-> fr.err]
    ELSE IF fr.output # Undefined
         THEN Tried(WorldOp(fr.w, LogOp(<<fr.output>>)))
         ELSE [w |-> fr.w, err |-> NoErr]

\* the try block of the submit handler
TryBlock(prog, input, w) == TryBlockAfter(func(prog, input, w))

\* the handler without its finally block: addBreak only after a normal return
TryCatchFinally_NoFinally(prog, input, w, formErr) ==
    LET t == TryBlock(prog, input, w)
        fin == IF t.err # NoErr THEN t.w ELSE WorldOp(t.w, AddBreakOp)
    IN  [w |-> [fin EXCEPT !.err = NoErr],
         formErr |-> IF t.err # NoErr THEN ErrorToString(t.err) ELSE formErr,
         threw |-> t.err,
         funcErr |-> t.err]

\* the end of the handler: t is the result of the try block, fin the stream
\* after the addBreak of the finally block
HandlerEnd(t, fin, formErr) ==
    [w |-> fin,
     formErr |-> IF t.err # NoErr THEN ErrorToString(t.err) ELSE formErr,
     threw |-> IF fin.err # NoErr THEN fin.err ELSE t.err,
     funcErr |-> t.err]

\* catch and finally, t the result of the try block
CatchFinally(t, formErr) ==
    HandlerEnd(t, WorldOp([t.w EXCEPT !.err = NoErr], AddBreakOp), formErr)

\* try / catch / finally of the submit handler
TryCatchFinally(prog, input, w, formErr) ==
    CatchFinally(TryBlock(prog, input, w), formErr)

\* what the handler leaves when func was not called, rf the result of readForm
NotCalled(rf, formErr, w) ==
    [errs |-> rf.errs, formErr |-> formErr, w |-> w, input |-> rf.output,
     reads |-> rf.reads, failed |-> rf.failed,
     status |-> IF rf.err # NoErr THEN "none" ELSE "invalid",
     called |-> FALSE, threw |-> rf.err, funcErr |-> NoErr]

\* what the handler leaves when func was called, t the result of try/catch/finally
Called(rf, t) ==
    [errs |-> rf.errs, formErr |-> t.formErr, w |-> t.w, input |-> rf.output,
     reads |-> rf.reads, failed |-> rf.failed,
     status |-> IF rf.globalOk THEN "ok" ELSE "invalid",
     called |-> TRUE, threw |-> t.threw, funcErr |-> t.funcErr]

\* the handler without its if(status)
AfterRead_IgnoresStatus(rf, formErr, w, prog) ==
    IF rf.err # NoErr THEN NotCalled(rf, formErr, w)
    ELSE Called(rf, TryCatchFinally(prog, rf.output, w, formErr))

\* the handler after readForm, whose result is rf
AfterRead(rf, formErr, w, prog) ==
    IF rf.err = NoErr /\ rf.globalOk
    THEN Called(rf, TryCatchFinally(prog, rf.output, w, formErr))
    ELSE NotCalled(rf, formErr, w)

\* the listener of the form's submit event (debugInfo is left out)
SubmitHandler(group, ctl, errs, formErr, w, prog) ==
    AfterRead(readForm(group, FormData(group, ctl), errs), formErr, w, prog)

\* ------------------------------------------------------------ the program
VARIABLES
    controls,       \* the form's controls: param name -> text or checked
    errorsElem,     \* param name -> children of the element key + '.errors'
    formErrorElem,  \* innerHTML of the form's error element
    query,          \* the query string of the address bar: key -> value
    stdout,         \* the form's Ostream
    refStream,      \* a stream constructed at the last clear() of stdout
    cleared,        \* whether stdout was cleared, and of what
    widget,         \* what a script holds of the object it constructed
    last            \* what the last event did

vars == <<controls, errorsElem, formErrorElem, query, stdout, refStream, cleared,
          widget, last>>

\* the form of examples/greedy-scheduling.html, param a without its converter
paramGroup ==
    ParamGroup("g", <<Param("a", TextWidget(Null, TRUE, Null, Null)),
                      Param("m", TextWidget(compose(AssertGEConv(1), ToIntConv),
                                            TRUE, Null, Null)),
                      Param("sort", CheckBoxWidget(Bool(TRUE)))>>)

ParamNames(group) == {group.paramList[i].name : i \in 1..Len(group.paramList)}
ParamOf(group, name) ==
    group.paramList[CHOOSE i \in 1..Len(group.paramList) : group.paramList[i].name = name]

\* what a user sets the controls to
FormInputs ==
    {[a |-> Str(ta), m |-> Str(tm), sort |-> Bool(b)] :
        ta \in {<<>>, <<"x">>}, tm \in {<<>>, <<"0">>, <<"2">>}, b \in BOOLEAN}

\* the controls as the create methods build them
InitialControls(group) ==
    [n \in ParamNames(group) |->
        IF ParamOf(group, n).widget.cls = "TextWidget" THEN Str(<<>>)
        ELSE Bool(Truthy(ParamOf(group, n).widget.defVal))]

\* query strings of the entries of the session history
OtherKey == <<"other">>
Queries ==
    {(OtherKey :> Str(<<"1">>)),
     (OtherKey :> Str(<<"1">>)) @@ (<<"f2f.", "g", ".", "m">> :> Str(<<"0">>))}

SvgAttrs == [width |-> 244]
Rect == [tag |-> "rect"]

\* the calls a script makes on a stream
StreamOps ==
    {LogOp(<<Str(<<"a">>)>>), RawAddOp(Rect), AddBreakOp, ClearOp,
     SetLaneOp("svg", SvgAttrs), SetLaneOp("log", Null), SetLaneOp("table", Null),
     SetLaneOp("toString", Null)}

\* the calls the user's function makes on stdout
FuncOps == {LogOp(<<Str(<<"a">>)>>), ClearOp, SetLaneOp("svg", SvgAttrs)}

NoProg == [ops |-> <<>>, throws |-> FALSE, ret |-> Undefined]

Programs ==
    LET opSeqs == UNION {[1..n -> FuncOps] : n \in 0..MaxFuncOps}
    IN  {[ops |-> o, throws |-> FALSE, ret |-> r] : o \in opSeqs, r \in {Undefined, Str(<<"r">>)}}
        \cup {[ops |-> o, throws |-> TRUE, ret |-> Undefined] : o \in opSeqs}

\* the first call on stdout of a submission in which func does prog,
\* ClearOp if there is none before the addBreak
FirstCall(prog) ==
    IF Len(prog.ops) > 0 THEN prog.ops[1]
    ELSE IF ~prog.throws /\ prog.ret # Undefined THEN LogOp(<<prog.ret>>)
    ELSE ClearOp

\* func is called only when every field was read
ProgramsFor(ctl, errs) ==
    IF readForm(paramGroup, FormData(paramGroup, ctl), errs).globalOk
    THEN Programs ELSE {NoProg}

InBounds(s, maxLanes) ==
    /\ Len(s.children) <= maxLanes
    /\ \A i \in 1..Len(s.children) : Len(s.children[i].kids) <= MaxKids

NoEvent ==
    [ev |-> "none", op |-> ClearOp, first |-> ClearOp, input |-> EmptyObj,
     value |-> Null, result |-> [val |-> Undefined, err |-> NoErr],
     status |-> "none", reads |-> <<>>, failed |-> {}, called |-> FALSE,
     threw |-> NoErr, funcErr |-> NoErr, kept |-> 0, afterOk |-> FALSE,
     shown |-> {}]

Init ==
    /\ controls = InitialControls(paramGroup)
    /\ errorsElem = [n \in ParamNames(paramGroup) |-> <<>>]
    /\ formErrorElem = <<>>
    /\ query \in Queries
    /\ stdout = Ostream
    /\ refStream = Ostream
    /\ cleared = "never"
    /\ widget = Null
    /\ last = NoEvent

\* the user fills the form in and submits it; func does prog
Submit ==
    \E ctl \in FormInputs :
      \E prog \in ProgramsFor(ctl, errorsElem) :
        \E r \in {SubmitHandler(paramGroup, ctl, errorsElem, formErrorElem,
                                World(stdout, refStream, cleared), prog)} :
            /\ InBounds(r.w.s, MaxFormLanes)
            /\ controls' = ctl
            /\ errorsElem' = r.errs
            /\ formErrorElem' = r.formErr
            /\ stdout' = r.w.s
            /\ refStream' = r.w.ref
            /\ cleared' = r.w.cleared
            /\ last' = [NoEvent EXCEPT !.ev = "submit", !.status = r.status,
                                       !.input = r.input,
                                       !.first = IF r.called THEN FirstCall(prog) ELSE @,
                                       !.reads = r.reads, !.failed = r.failed,
                                       !.called = r.called, !.threw = r.threw,
                                       !.funcErr = r.funcErr,
                                       !.kept = IF r.called THEN r.w.kept ELSE 0,
                                       !.shown = {n \in DOMAIN errorsElem :
                                                     errorsElem[n] # <<>>}]
            /\ UNCHANGED <<query, widget>>

\* the browser moves to another entry of the session history and fires
\* popstate; the program has no listener for it
PopState ==
    \E q \in Queries :
        /\ query' = q
        /\ last' = [NoEvent EXCEPT !.ev = "popstate",
                                   !.afterOk = (last.ev = "submit" /\ last.status = "ok")]
        /\ UNCHANGED <<controls, errorsElem, formErrorElem, stdout, refStream, cleared, widget>>

Next == Submit \/ PopState

Spec == Init /\ [][Next]_vars

\* ----------------------------------------------- a stream called directly
\* a script calls a method of a stream
StreamCall ==
    \E o \in StreamOps :
      \E w \in {WorldOp(World(stdout, refStream, cleared), o)} :
        /\ InBounds(w.s, MaxLanes)
        /\ stdout' = w.s
        /\ refStream' = w.ref
        /\ cleared' = w.cleared
        /\ last' = [NoEvent EXCEPT !.ev = "stream", !.op = o, !.threw = w.err]
        /\ UNCHANGED <<controls, errorsElem, formErrorElem, query, widget>>

SpecStream == Init /\ [][StreamCall]_vars

\* -------------------------------------------------- a text widget by itself
\* default values and converters given to the constructor
DefVals == {Null, Num(0), Str(<<>>), Bool(FALSE), Str(<<"d">>), Num(7)}
Converters == {Null, ToIntConv, compose(AssertGEConv(1), ToIntConv)}

\* what formData.get gives for a text input, and null
RawValues == {Null} \cup {Str(t) : t \in {<<>>, <<"0">>, <<"2">>, <<"x">>, <<" ", "2">>}}

WidgetKey == <<"f2f.", "g", ".", "a">>

\* a script constructs a text widget
InitWidget ==
    /\ controls = InitialControls(paramGroup)
    /\ errorsElem = [n \in ParamNames(paramGroup) |-> <<>>]
    /\ formErrorElem = <<>>
    /\ query \in Queries
    /\ stdout = Ostream
    /\ refStream = Ostream
    /\ cleared = "never"
    /\ widget \in {TextWidget(c, req, dv, Null) : c \in Converters, req \in BOOLEAN, dv \in DefVals}
    /\ last = NoEvent

\* and calls its read
WidgetReadCall ==
    \E value \in RawValues :
        /\ last' = [NoEvent EXCEPT !.ev = "read", !.value = value,
                                   !.result = TextWidget_read(widget, WidgetKey, value)]
        /\ UNCHANGED <<controls, errorsElem, formErrorElem, query, stdout, refStream,
                       cleared, widget>>

SpecWidget == InitWidget /\ [][WidgetReadCall]_vars

\* ------------------------------------------- param groups and select widgets
DefNames == {"x", "y"}

\* the lists of n names, and of n options
NameSeqs(n) == [1..n -> DefNames]

OptionSeqs(n) ==
    [1..n -> {SelectOption(name, value, Null) : name \in DefNames, value \in {Null, Num(1)}}]

\* x = new C(...): x keeps what it held when the constructor throws
Constructed(made, held) ==
    IF made.err = NoErr THEN made ELSE held

ConstructResult(made) ==
    [val |-> IF made.err = NoErr THEN made ELSE Undefined, err |-> made.err]

\* a script constructs a param group of checkboxes
NewParamGroup ==
    \E n \in 0..MaxDefs :
      \E names \in NameSeqs(n) :
      \E g \in {ParamGroup("g", [i \in 1..n |->
                                    Param(names[i], CheckBoxWidget(Bool(FALSE)))])} :
        /\ widget' = Constructed(g, widget)
        /\ last' = [NoEvent EXCEPT !.ev = "ParamGroup", !.value = g.paramList,
                                   !.result = ConstructResult(g)]
        /\ UNCHANGED <<controls, errorsElem, formErrorElem, query, stdout, refStream, cleared>>

\* a script constructs a select widget
NewSelectWidget ==
    \E n \in 0..MaxDefs :
      \E opts \in OptionSeqs(n) :
      \E options \in {[i \in 1..n |-> opts[i]]} :
      \E w \in {SelectWidget(options, Null)} :
        /\ widget' = Constructed(w, widget)
        /\ last' = [NoEvent EXCEPT !.ev = "SelectWidget", !.value = options,
                                   !.result = ConstructResult(w)]
        /\ UNCHANGED <<controls, errorsElem, formErrorElem, query, stdout, refStream, cleared>>

NextDefine == NewParamGroup \/ NewSelectWidget

SpecDefine == Init /\ [][NextDefine]_vars

\* ------------------------------------------------- converters by themselves
TextChars == {"0", "2", ".", "-", " ", "x", "/"}

ConvTexts == {Str(t) : t \in UNION {[1..n -> TextChars] : n \in 0..MaxText}}
ConvNums == {Num(n) : n \in (-MaxNum)..MaxNum}

Thresholds == {-1, 0, 1, 2}

\* converters of texts and validators of numbers
TextConverters == {ToIntConv, ToFloatConv, compose(AssertGEConv(1), ToIntConv)}
NumValidators == {AssertGEConv(t) : t \in Thresholds}

\* a script holds a text or a number
InitConv ==
    /\ controls = InitialControls(paramGroup)
    /\ errorsElem = [n \in ParamNames(paramGroup) |-> <<>>]
    /\ formErrorElem = <<>>
    /\ query \in Queries
    /\ stdout = Ostream
    /\ refStream = Ostream
    /\ cleared = "never"
    /\ widget = Null
    /\ last \in {[NoEvent EXCEPT !.value = v] : v \in ConvTexts \cup ConvNums}

\* and calls a converter on the text
ConvertText ==
    /\ IsStr(last.value)
    /\ \E c \in TextConverters :
          last' = [last EXCEPT !.ev = "convert", !.op = c, !.result = ApplyConv(c, last.value)]
    /\ UNCHANGED <<controls, errorsElem, formErrorElem, query, stdout, refStream,
                   cleared, widget>>

\* or a validator on the number
ValidateNumber ==
    /\ IsNum(last.value)
    /\ \E c \in NumValidators :
          last' = [last EXCEPT !.ev = "convert", !.op = c, !.result = ApplyConv(c, last.value)]
    /\ UNCHANGED <<controls, errorsElem, formErrorElem, query, stdout, refStream,
                   cleared, widget>>

NextConv == ConvertText \/ ValidateNumber

SpecConv == InitConv /\ [][NextConv]_vars

\* ------------------------------------------------------------- properties
SubmittedOk == last.ev = "submit" /\ last.status = "ok"

FormKeys == {FieldKey(paramGroup, paramGroup.paramList[i]) : i \in 1..Len(paramGroup.paramList)}

\* the result of widget.read on what the controls ctl hold for the i-th param
ReadOf(ctl, i) ==
    LET p == paramGroup.paramList[i]
        key == FieldKey(paramGroup, p)
    IN  WidgetRead(p.widget, key, FormDataGet(FormData(paramGroup, ctl), key))

ReadOfControl(i) == ReadOf(controls, i)

\* C1: a submission in which the read of some field fails with a validation
\* error does not call func and leaves the output stream (lane name, lane
\* containers) and the query string as they were.
C1_InvalidSubmitChangesNothing ==
    [][(last'.ev = "submit" /\ \E i \in 1..Len(paramGroup.paramList) :
                                   IsInputError(ReadOf(controls', i).err))
       => (~last'.called /\ stdout' = stdout /\ query' = query)]_vars

\* a submission with a failed field, made when the stream had content
C1_Witness ==
    /\ last.ev = "submit"
    /\ last.failed # {}
    /\ ~last.called
    /\ Len(stdout.children) > 0

\* C2: in a submission no validation error leaves the handler, widget.read
\* is called for every param in declaration order, and the errors element
\* of a field holds the message of its failed read, and nothing when its
\* read succeeded.
C2_ErrorsAreLocal ==
    last.ev = "submit" =>
        /\ ~IsInputError(last.threw)
        /\ last.reads = [i \in 1..Len(paramGroup.paramList) |->
                            FieldKey(paramGroup, paramGroup.paramList[i])]
        /\ \A i \in 1..Len(paramGroup.paramList) :
              LET name == paramGroup.paramList[i].name
                  r == ReadOfControl(i)
              IN  /\ IsInputError(r.err) =>
                        errorsElem[name] = <<[cls |-> "f2f-error", html |-> r.err.message]>>
                  /\ r.err = NoErr => errorsElem[name] = <<>>

\* the first field failed, the later ones were read and the second is valid
C2_Witness ==
    /\ last.ev = "submit"
    /\ errorsElem["a"] # <<>>
    /\ errorsElem["m"] = <<>>
    /\ Len(last.reads) = 3
    /\ "m" \in DOMAIN last.input

\* C3: after a submission whose fields were all read, the query string maps
\* the key of every field submitted with a non-empty value to that value,
\* holds no other key of the form, and keeps every key outside the form.
C3_QueryHoldsSubmitted ==
    [][(last'.ev = "submit" /\ last'.status = "ok")
       => /\ \A key \in FormKeys :
                LET v == FormDataGet(FormData(paramGroup, controls'), key)
                IN  IF Truthy(v) THEN key \in DOMAIN query' /\ query'[key] = v
                    ELSE key \notin DOMAIN query'
          /\ \A key \in DOMAIN query \ FormKeys :
                key \in DOMAIN query' /\ query'[key] = query[key]]_vars

\* C4: after a popstate event that follows a successful submission, every
\* control holds the value the query string has for its key, and the event
\* called neither widget.read nor func.
C4_PopStateRestoresControls ==
    (last.ev = "popstate" /\ last.afterOk) =>
        /\ \A i \in 1..Len(paramGroup.paramList) :
              LET p == paramGroup.paramList[i]
                  key == FieldKey(paramGroup, p)
              IN  key \in DOMAIN query =>
                      controls[p.name] = IF p.widget.cls = "TextWidget" THEN query[key]
                                         ELSE Bool(Truthy(query[key]))
        /\ last.reads = <<>>
        /\ ~last.called

\* the lane kind a call appends to, NullName for a call that names none
AppendKind(o) ==
    IF o.op = "log" THEN "log"
    ELSE IF o.op = "addBreak" THEN "break"
    ELSE IF o.op = "setLane" THEN o.name
    ELSE NullName

\* C5: an append of the kind of the current lane creates no container; an
\* append of another kind (log, table, svg, separator) creates one container
\* of that kind after the earlier ones, which stay as they were.
C5_AppendOpensLane ==
    [][(last'.ev = "stream" /\ AppendKind(last'.op) \in {"log", "table", "svg", "break"})
       => IF AppendKind(last'.op) = stdout.laneName
          THEN Len(stdout'.children) = Len(stdout.children)
          ELSE /\ Len(stdout'.children) = Len(stdout.children) + 1
               /\ SubSeq(stdout'.children, 1, Len(stdout.children)) = stdout.children
               /\ stdout'.children[Len(stdout'.children)].cls
                     = <<"f2f-lane-", AppendKind(last'.op)>>]_vars

\* C6: after clear() and any calls that follow it, the stream is as a
\* newly constructed stream is after those calls.
C6_ClearIsFresh ==
    cleared # "never" => stdout = refStream

\* a clear() discarded lane containers and calls made after it opened others
C6_Witness ==
    /\ cleared = "content"
    /\ Len(stdout.children) >= 2
    /\ last.ev = "stream"
    /\ last.op.op = "log"

\* C7: when func throws, a log line of the stream carries the error and the
\* handler throws the same error.
C7_ErrorIsLoggedToStream ==
    (last.ev = "submit" /\ last.funcErr # NoErr) =>
        /\ \E i \in 1..Len(stdout.children) :
              /\ stdout.children[i].cls = <<"f2f-lane-", "log">>
              /\ \E j \in 1..Len(stdout.children[i].kids) :
                    stdout.children[i].kids[j].html = ErrorToString(last.funcErr)
        /\ last.threw = last.funcErr

\* C8: after a submission whose fields were all read, whether func returned
\* or threw, the current lane is the separator lane and its container is the
\* last one; and the first log or setLane of the next such submission opens
\* a new container.
C8_BreakAfterSubmit ==
    /\ [](SubmittedOk =>
            /\ stdout.laneName = "break"
            /\ stdout.laneElem = Len(stdout.children)
            /\ stdout.laneElem > 0
            /\ stdout.children[stdout.laneElem].cls = <<"f2f-lane-", "break">>)
    /\ [][(Len(stdout.children) > 0 /\ SubmittedOk' /\ last'.first.op \in {"log", "setLane"})
          => Len(ApplyOp(stdout, last'.first).s.children) = Len(stdout.children) + 1]_vars

\* func threw after it had written to the stream
C8_Witness ==
    /\ SubmittedOk
    /\ last.funcErr # NoErr
    /\ Len(stdout.children) >= 2
    /\ stdout.laneName = "break"

\* C9: a submission whose fields were all read clears the stream before it
\* calls func: no lane container of before the submission is left after it.
C9_SubmitClearsStream ==
    SubmittedOk => last.kept = 0

\* C10: a text widget constructed with a default value other than null is
\* not required, and its read of an empty value returns the default value.
C10_DefaultMeansOptional ==
    (widget # Null /\ widget.defVal # Null) =>
        /\ ~widget.required
        /\ (last.ev = "read" /\ ~Truthy(last.value)) =>
              last.result = [val |-> widget.defVal, err |-> NoErr]

\* C11: read(key, value) of a text widget returns converter(value), or value
\* when there is no converter, for a non-empty value; throws an InputError
\* whose message is "empty value for " + key for an empty value when the
\* widget is required; and returns the default value for an empty value
\* when it is not required.
C11_ReadThreeOutcomes ==
    (widget # Null /\ last.ev = "read") =>
        last.result =
            IF Truthy(last.value)
            THEN IF widget.converter = Null THEN [val |-> last.value, err |-> NoErr]
                 ELSE ApplyConv(widget.converter, last.value)
            ELSE IF widget.required
                 THEN [val |-> Undefined,
                       err |-> InputError(<<"empty value for ">> \o WidgetKey)]
                 ELSE [val |-> widget.defVal, err |-> NoErr]

\* C12: the constructor of ParamGroup throws an Error when two params of its
\* list have the same name, and the constructor of SelectWidget throws an
\* Error when two options of its list have the same name: no object is
\* constructed; with distinct names the object is constructed with the list.
C12_DuplicateNamesFailAtConstruction ==
    last.ev \in {"ParamGroup", "SelectWidget"} =>
        IF \E i, j \in 1..Len(last.value) : i < j /\ last.value[i].name = last.value[j].name
        THEN /\ last.result.err # NoErr
             /\ last.result.err.name = "Error"
             /\ last.result.val = Undefined
        ELSE /\ last.result.err = NoErr
             /\ widget = last.result.val
             /\ IF last.ev = "ParamGroup" THEN widget.paramList = last.value
                ELSE widget.options = last.value

\* a select widget whose first and third option have the same name
C12_Witness ==
    /\ last.ev = "SelectWidget"
    /\ Len(last.value) = 3
    /\ last.value[1].name = last.value[3].name
    /\ last.value[1].name # last.value[2].name
    /\ last.result.err = Error(<<"Select option ", last.value[3].name, " already used">>)

\* C13: the function assertGE(thresh) returns x itself for a number
\* x >= thresh and throws an InputError for a number x < thresh; and
\* compose(assertGE(1), toInt) of a text that is an integer, blanks around it
\* aside, returns the integer when it is >= 1 and throws an InputError
\* otherwise.
C13_AssertGEPassesOrFails ==
    last.ev = "convert" =>
        /\ \A t \in Thresholds :
              (last.op = AssertGEConv(t) /\ IsNum(last.value)) =>
                  IF last.value.num >= t
                  THEN last.result = [val |-> last.value, err |-> NoErr]
                  ELSE IsInputError(last.result.err)
        /\ (last.op = compose(AssertGEConv(1), ToIntConv) /\ IsStr(last.value)
               /\ IsIntText(Trim(last.value.str))) =>
              IF parseInt(Trim(last.value.str)) >= 1
              THEN last.result = [val |-> Num(parseInt(Trim(last.value.str))), err |-> NoErr]
              ELSE IsInputError(last.result.err)

\* the composition returned the integer of a text with a blank before it
C13_Witness ==
    /\ last.ev = "convert"
    /\ last.op = compose(AssertGEConv(1), ToIntConv)
    /\ last.value = Str(<<" ", "2">>)
    /\ last.result = [val |-> Num(2), err |-> NoErr]

\* C14: toFloat of a text without '/' returns the number the text denotes
\* when the text is a decimal number, blanks around it aside, and throws an
\* InputError when the text is empty, blank or not a number; it never
\* returns undefined or NaN.
C14_ToFloatNumberOrError ==
    (last.ev = "convert" /\ last.op = ToFloatConv
        /\ \A i \in 1..Len(last.value.str) : last.value.str[i] # "/") =>
        /\ IF IsSignedDecimal(Trim(last.value.str))
           THEN last.result = [val |-> DecimalValue(Trim(last.value.str)), err |-> NoErr]
           ELSE IsInputError(last.result.err)
        /\ last.result.err = NoErr => IsNumber(last.result.val)

C16_FormErrorIsOfLastSubmit ==
    (last.ev = "submit" /\ last.called) =>
        (formErrorElem # <<>> => last.funcErr # NoErr)

\* C17: in every state of a stream laneName is null exactly when laneElem
\* is null, and a laneElem that is not null is the last child of streamElem
\* and has the class of laneName; and a setLane that throws leaves
\* laneName, laneElem and the children of streamElem as they were.
C17_LaneFieldsAgree ==
    /\ []((stdout.laneName = NullName <=> stdout.laneElem = 0)
          /\ (stdout.laneElem # 0 =>
                /\ stdout.laneElem = Len(stdout.children)
                /\ stdout.children[stdout.laneElem].cls = <<"f2f-lane-", stdout.laneName>>))
    /\ [][(last'.ev = "stream" /\ last'.op.op = "setLane" /\ last'.threw # NoErr)
            => stdout' = stdout]_vars

====
